---- MODULE Spec2Model ----
(***************************************************************************)
(* A model of mdpc-gf4: GF(4) arithmetic, PolynomialGF2N, the half-GCD     *)
(* inverter, key generation, the encoder and the symbol-flipping decoder.  *)
(*                                                                         *)
(* A polynomial is its coefficient vector (std::vector<T> coefficients),   *)
(* a sequence over 0..3 whose entry i+1 is the coefficient of x^i.  The    *)
(* vector can be empty (set_coefficient and div_x_to_deg produce that).    *)
(* An operation that does not return a polynomial is a one-element         *)
(* sequence holding a negative code; every operation passes such a value   *)
(* on unchanged, as an uncaught exception or a crash ends the caller.      *)
(***************************************************************************)
EXTENDS Integers, Sequences, FiniteSets, TLC

\* ---------------------------------------------------------------- bounds
\* Highest degree of the polynomial operands that are enumerated.
MaxDeg == 2
\* Highest degree of the polynomial objects a program of operations holds.
MaxOpsDeg == 1
\* Highest degree of the moduli that invert is given.
MaxModDeg == 3
\* Largest block size r of the contexts.
MaxR == 3
\* Largest block weight w asked of key generation.
MaxW == 2
\* Largest block size r asked of the earlier generators generate_contexts.
MaxEarlierR == 2
\* Largest iteration budget K handed to decode.
MaxK == 2
\* Largest Hamming weight of the vectors handed directly to decode.
MaxErrWeight == 1

\* ------------------------------------------------------- GF4 (gf4.h)
GF4_MAX_VALUE == 3
F == 0..GF4_MAX_VALUE

GF4_MULTIPLICATION ==
    << <<0, 0, 0, 0>>,
       <<0, 1, 2, 3>>,
       <<0, 2, 3, 1>>,
       <<0, 3, 1, 2>> >>

GF4_DIVISION ==
    << <<0, 0, 0>>,
       <<1, 3, 2>>,
       <<2, 1, 3>>,
       <<3, 2, 1>> >>

\* operator+ : value ^ other.value on two-bit values
gf_add(a, b) == (((a % 2) + (b % 2)) % 2) + 2 * (((a \div 2) + (b \div 2)) % 2)
\* Multiplication of the values as integers modulo 4, not in the field.
gf_mul_integers(a, b) == (a * b) % 4
\* operator* : table lookup
gf_mul(a, b) == GF4_MULTIPLICATION[a + 1][b + 1]
\* operator/ : table lookup, other.value - 1 is the column (other # 0)
gf_div(a, b) == GF4_DIVISION[a + 1][b]
nonzero_elements == <<1, 2, 3>>

\* ------------------------------------------- outcomes that are no value
\* Undefined behaviour (an access outside a vector, an erase past the end).
UB == <<-1>>
DivisionByZero == <<-2>>
IncorrectPolynomialDegree == <<-3>>
\* A loop or a recursion that never ends (ends as a stack overflow).
Diverges == <<-4>>
IncorrectInputVectorLength == <<-5>>
WTF == <<-6>>
ImpossibleHammingWeight == <<-7>>
\* std::optional without a value (what invert and decode return for "none").
Nothing == <<-9>>
IsErr(p) == Len(p) = 1 /\ p[1] < 0 /\ p[1] > -9
IsNothing(p) == p = Nothing
IsPoly(p) == ~IsErr(p) /\ ~IsNothing(p)
Err2(p, q) == IF IsErr(p) THEN p ELSE q
\* GF4::operator/ with its test of the divisor: the quotient as a one-element
\* sequence, or the exception
GF4Divide(a, b) == IF b = 0 THEN DivisionByZero ELSE <<gf_div(a, b)>>

\* -------------------------------------------- PolynomialGF2N (polynomial.h)
make_zero == <<0>>
make_one == <<1>>
IsEmpty(p) == Len(p) = 0
\* get_degree() is coefficients.size() - 1 in size_t: the callers below treat
\* the empty vector, whose degree wraps to SIZE_MAX, as a case of its own.
get_degree(p) == Len(p) - 1
is_zero(p) == IsEmpty(p) \/ (get_degree(p) = 0 /\ p[1] = 0)
is_one(p) == IsEmpty(p) \/ (get_degree(p) = 0 /\ p[1] = 1)
\* get_coefficient(deg) of a non-empty polynomial
get_coefficient(p, d) == IF d > get_degree(p) THEN 0 ELSE p[d + 1]

\* The highest 0-based index of cs holding a non-zero entry among the first n
\* entries, 0 if there is none (the loops "if (!c[i].is_zero()) degree = i").
RECURSIVE LastNonZero(_, _)
LastNonZero(cs, n) ==
    IF n = 0 THEN 0
    ELSE IF cs[n] # 0 THEN n - 1 ELSE LastNonZero(cs, n - 1)

\* explicit PolynomialGF2N(const std::vector<T>& coeffs)
PolynomialFromVector(coeffs) ==
    IF Len(coeffs) = 0 THEN <<0>>
    ELSE LET degree == LastNonZero(coeffs, Len(coeffs))
         IN  IF degree # 0 THEN SubSeq(coeffs, 1, degree + 1) ELSE <<0>>

Resize(p, n) == [i \in 1..n |-> IF i <= Len(p) THEN p[i] ELSE 0]

\* set_coefficient(deg, value)
set_coefficient(p, deg, value) ==
    IF IsErr(p) THEN p
    ELSE IF IsEmpty(p) THEN UB   \* neither test holds of SIZE_MAX: coefficients[deg] = value
    ELSE IF deg > get_degree(p) /\ value # 0
         THEN [Resize(p, deg + 1) EXCEPT ![deg + 1] = value]
    ELSE IF deg = get_degree(p) /\ value = 0
         THEN LET c == [p EXCEPT ![deg + 1] = 0]
                  \* for (i = get_degree(); i > 0; --i): index 0 is never looked at
                  degree == LastNonZero(c, Len(c))
              IN  IF degree = 0 THEN << >> ELSE SubSeq(c, 1, degree + 1)
    ELSE IF deg > get_degree(p) THEN UB   \* coefficients[deg] = value past the end
    ELSE [p EXCEPT ![deg + 1] = value]

\* operator+ (and operator+=, operator-, operator-=, which compute the same)
PolyAdd(p, q) ==
    IF IsErr(p) \/ IsErr(q) THEN Err2(p, q)
    ELSE IF IsEmpty(p) \/ IsEmpty(q) THEN UB   \* the loops run to SIZE_MAX on an empty vector
    ELSE IF get_degree(p) > get_degree(q)
         THEN [i \in 1..Len(p) |-> gf_add(p[i], get_coefficient(q, i - 1))]
    ELSE LET out == [i \in 1..Len(q) |-> gf_add(get_coefficient(p, i - 1), q[i])]
         IN  SubSeq(out, 1, LastNonZero(out, Len(out)) + 1)

\* The sum in F of the products p[i] * q[n - i] for i in lo..hi (0-based), the
\* value out.coefficients[n] holds once the pair (hi, n - hi) has been added.
RECURSIVE ConvPartial(_, _, _, _, _)
ConvPartial(p, q, n, lo, hi) ==
    IF hi < lo THEN 0
    ELSE gf_add(ConvPartial(p, q, n, lo, hi - 1), gf_mul(p[hi + 1], q[n - hi + 1]))

Max2(a, b) == IF a > b THEN a ELSE b
Min2(a, b) == IF a < b THEN a ELSE b
\* The largest member of a set of naturals, 0 for the empty set.
SetMax(S) == IF S = {} THEN 0 ELSE CHOOSE n \in S : \A k \in S : k <= n

\* operator*(const PolynomialGF2N<T>&): degree is the highest index i + j whose
\* entry was non-zero right after some "+=" of the double loop.
PolyMul(p, q) ==
    IF IsErr(p) \/ IsErr(q) THEN Err2(p, q)
    ELSE IF IsEmpty(p) \/ IsEmpty(q) THEN UB   \* coefficients[0] of an empty vector
    ELSE SubSeq([k \in 1..(Len(p) + Len(q) - 1) |->
                    ConvPartial(p, q, k - 1, Max2(0, k - Len(q)), Min2(k - 1, Len(p) - 1))],
                1,
                SetMax({n \in 0..(Len(p) + Len(q) - 2) :
                          \E i \in Max2(0, n - Len(q) + 1)..Min2(n, Len(p) - 1) :
                             ConvPartial(p, q, n, Max2(0, n - Len(q) + 1), i) # 0}) + 1)

\* operator*=(const T& scalar)
ScalarMul(p, scalar) ==
    IF IsErr(p) THEN p
    ELSE IF IsEmpty(p) THEN UB   \* coefficients[0] of an empty vector
    ELSE LET out == [i \in 1..Len(p) |-> gf_mul(p[i], scalar)]
         IN  SubSeq(out, 1, LastNonZero(out, Len(out)) + 1)

\* The polynomial t of div_rem: t.set_coefficient(t_degree, t_lead)
Monomial(t_lead, t_degree) == [i \in 1..(t_degree + 1) |-> IF i = t_degree + 1 THEN t_lead ELSE 0]

\* div_rem whose loop runs while the remainder's degree is above the divisor's
\* (> for >=): it stops one round early.
RECURSIVE DivLoopStrict(_, _, _)
DivLoopStrict(q, r, other) ==
    IF is_zero(r) \/ get_degree(r) <= get_degree(other) THEN <<q, r>>
    ELSE DivLoopStrict(
           PolyAdd(q, Monomial(gf_div(r[Len(r)], other[Len(other)]), Len(r) - Len(other))),
           PolyAdd(r, PolyMul(Monomial(gf_div(r[Len(r)], other[Len(other)]), Len(r) - Len(other)),
                              other)),
           other)

RECURSIVE DivLoop(_, _, _)
\* The end of one round of the loop: q += t; r -= t * other (r2 is the new r).
DivRound(q, r, other, t, r2) ==
    IF r2 = r THEN <<Diverges, Diverges>>   \* the loop makes no progress
    ELSE DivLoop(PolyAdd(q, t), r2, other)

\* The while loop of div_rem, from the state (q, r).
DivLoop(q, r, other) ==
    IF IsErr(q) \/ IsErr(r) THEN <<Err2(q, r), Err2(q, r)>>
    ELSE IF is_zero(r) \/ get_degree(r) < get_degree(other) THEN <<q, r>>
    ELSE IF other[Len(other)] = 0 THEN <<DivisionByZero, DivisionByZero>>   \* GF4::operator/
    ELSE DivRound(q, r, other,
                  Monomial(gf_div(r[Len(r)], other[Len(other)]), get_degree(r) - get_degree(other)),
                  PolyAdd(r, PolyMul(Monomial(gf_div(r[Len(r)], other[Len(other)]),
                                              get_degree(r) - get_degree(other)),
                                     other)))

\* div_rem without the test other.is_zero().
div_rem_unchecked(p, other) ==
    IF IsErr(p) \/ IsErr(other) THEN <<Err2(p, other), Err2(p, other)>>
    ELSE DivLoop(make_zero, p, other)

\* div_rem(other): <<quotient, remainder>>
div_rem(p, other) ==
    IF IsErr(p) \/ IsErr(other) THEN <<Err2(p, other), Err2(p, other)>>
    ELSE IF is_zero(other) THEN <<DivisionByZero, DivisionByZero>>
    ELSE DivLoop(make_zero, p, other)

PolyDiv(p, other) == div_rem(p, other)[1]
PolyMod(p, other) == div_rem(p, other)[2]

\* div_x_to_deg(deg): erase(begin(), begin() + deg)
div_x_to_deg(p, deg) ==
    IF IsErr(p) THEN p
    ELSE IF deg < 0 \/ deg > Len(p) THEN UB   \* begin() + deg is past end()
    ELSE SubSeq(p, deg + 1, Len(p))

\* ------------------------------------------- TransformMatrixGF2N (xgcd.h)
Matrix(m00, m01, m10, m11) == [a00 |-> m00, a01 |-> m01, a10 |-> m10, a11 |-> m11]
IdentityMatrix == Matrix(make_one, make_zero, make_zero, make_one)
\* TransformMatrixGF2N{q, 1, 1, 0}, the matrix of one Euclidean step
StepMatrix(q) == Matrix(q, make_one, make_one, make_zero)
ErrMatrix(e) == Matrix(e, e, e, e)
MatIsErr(M) == IsErr(M.a00) \/ IsErr(M.a01) \/ IsErr(M.a10) \/ IsErr(M.a11)

\* x*a + y*b, an entry of a matrix product or of a transformed pair
Dot(x, a, y, b) == PolyAdd(PolyMul(x, a), PolyMul(y, b))

\* TransformMatrixGF2N::operator*
MatMul(M, other) ==
    [a00 |-> Dot(M.a00, other.a00, M.a01, other.a10),
     a01 |-> Dot(M.a00, other.a01, M.a01, other.a11),
     a10 |-> Dot(M.a10, other.a00, M.a11, other.a10),
     a11 |-> Dot(M.a10, other.a01, M.a11, other.a11)]

\* TransformMatrixGF2N::adjugate: the code returns {a11, a01, a10, a11}
adjugate(M) == Matrix(M.a11, M.a01, M.a10, M.a11)

\* TransformMatrixGF2N::transform
transform(M, a, b) == <<Dot(M.a00, a, M.a01, b), Dot(M.a10, a, M.a11, b)>>

\* The deepest recursion and the longest loop that are followed; a run that
\* needs more is reported as Diverges.
MaxDepth == 12

HgcdErr(e) == [ar |-> << >>, T |-> ErrMatrix(e)]

\* m of half_gcd: (A.get_degree() + 1) / 2
HalfDegree(A) == (get_degree(A) + 1) \div 2

RECURSIVE half_gcd_rec(_, _, _)
\* The end of half_gcd: the second recursive call returned r2.
HgcdCompose(r1, ai, r2) ==
    IF MatIsErr(r2.T) THEN r2
    ELSE [ar |-> r1.ar \o <<ai>> \o r2.ar,
          T |-> MatMul(MatMul(r1.T, StepMatrix(ai)), r2.T)]

\* half_gcd from the Euclidean step dr = A1.div_rem(B1) on
HgcdStep(A, depth, r1, B1, dr) ==
    IF IsErr(dr[2]) THEN HgcdErr(dr[2])
    ELSE HgcdCompose(r1, dr[1],
                     half_gcd_rec(div_x_to_deg(B1, 2 * HalfDegree(A) - get_degree(dr[2])),
                                  div_x_to_deg(dr[2], 2 * HalfDegree(A) - get_degree(dr[2])),
                                  depth - 1))

\* half_gcd from the pair AB = r1.T.adjugate().transform(A, B) on
HgcdReduced(A, depth, r1, AB) ==
    IF IsErr(AB[1]) \/ IsErr(AB[2]) THEN HgcdErr(Err2(AB[1], AB[2]))
    ELSE IF get_degree(AB[2]) < HalfDegree(A) THEN r1
    ELSE HgcdStep(A, depth, r1, AB[2], div_rem(AB[1], AB[2]))

\* half_gcd from the result r1 of the first recursive call on
HgcdFirst(A, B, depth, r1) == HgcdReduced(A, depth, r1, transform(adjugate(r1.T), A, B))

\* half_gcd(A, B): [ar |-> the quotients, T |-> the transform]
half_gcd_rec(A, B, depth) ==
    IF IsErr(A) \/ IsErr(B) THEN HgcdErr(Err2(A, B))
    ELSE IF depth = 0 THEN HgcdErr(Diverges)
    \* A empty: its degree is SIZE_MAX, m = (SIZE_MAX + 1) / 2 = 0 and the call recurses on itself
    ELSE IF IsEmpty(A) THEN HgcdErr(Diverges)
    \* B empty: A.get_degree() < SIZE_MAX
    ELSE IF IsEmpty(B) \/ get_degree(A) < get_degree(B) THEN HgcdErr(IncorrectPolynomialDegree)
    ELSE IF get_degree(B) < HalfDegree(A) THEN [ar |-> << >>, T |-> IdentityMatrix]
    \* m = 0: half_gcd(A.div_x_to_deg(0), B.div_x_to_deg(0)) is this call again
    ELSE IF HalfDegree(A) = 0 THEN HgcdErr(Diverges)
    ELSE HgcdFirst(A, B, depth,
                   half_gcd_rec(div_x_to_deg(A, HalfDegree(A)), div_x_to_deg(B, HalfDegree(A)),
                                depth - 1))

half_gcd(A, B) == half_gcd_rec(A, B, MaxDepth)

\* trs.emplace_back(identity); while (trs.size() >= 2) fold the last two
RECURSIVE FoldTransforms(_, _)
FoldTransforms(trs, n) ==
    IF n > Len(trs) THEN IdentityMatrix
    ELSE MatMul(trs[n], FoldTransforms(trs, n + 1))

RECURSIVE FullLoop(_, _, _, _, _)
\* The loop of full_gcd from ab = tr.adjugate().transform(a, b) on
FullReduced(ak, trs, depth, ab) == FullLoop(ab[1], ab[2], ak, trs, depth - 1)

\* The loop of full_gcd after a half_gcd round that returned h
FullHalf(a, b, ak, trs, depth, h) ==
    IF MatIsErr(h.T) THEN h
    ELSE FullReduced(ak \o h.ar, Append(trs, h.T), depth, transform(adjugate(h.T), a, b))

\* The loop of full_gcd after the Euclidean step dr = a.div_rem(b)
FullStep(b, ak, trs, depth, dr) ==
    FullLoop(b, dr[2], Append(ak, dr[1]), Append(trs, StepMatrix(dr[1])), depth - 1)

\* The while loop of full_gcd, from the state (a, b, ak, trs).
FullLoop(a, b, ak, trs, depth) ==
    IF IsErr(a) \/ IsErr(b) THEN HgcdErr(Err2(a, b))
    ELSE IF is_zero(b) THEN [ar |-> ak, T |-> FoldTransforms(trs, 1)]
    ELSE IF depth = 0 THEN HgcdErr(Diverges)
    \* a empty: 2 * b.get_degree() > SIZE_MAX is false
    ELSE IF ~IsEmpty(a) /\ 2 * get_degree(b) > get_degree(a)
         THEN FullHalf(a, b, ak, trs, depth, half_gcd(a, b))
    ELSE FullStep(b, ak, trs, depth, div_rem(a, b))

\* full_gcd(a, b): [ar |-> the quotients, T |-> the composed transform]
full_gcd(a, b) == FullLoop(a, b, << >>, << >>, MaxDepth)

\* The end of invert: g = tr.a11 * a - tr.a01 * b has been computed
InvertResult(tr, g) ==
    IF IsErr(g) THEN g
    ELSE IF get_degree(g) # 0 THEN Nothing
    ELSE PolyDiv(tr.a01, g)

\* invert from tr = full_gcd(a, b) on
InvertWith(a, b, tr) == InvertResult(tr, Dot(tr.a11, a, tr.a01, b))

\* invert from b = *this % modulus on
InvertReduced(a, b) == InvertWith(a, b, full_gcd(a, b).T)

\* invert(modulus): the inverse, Nothing, or the exception or crash that ends the call
invert(p, modulus) ==
    IF IsErr(p) \/ IsErr(modulus) THEN Err2(p, modulus)
    ELSE IF is_zero(modulus) THEN DivisionByZero
    ELSE InvertReduced(modulus, PolyMod(p, modulus))

RECURSIVE SlowLoop(_, _, _, _)
\* One round of the loop of invert_slow, dr = a.div_rem(b)
SlowStep(b, t, s, dr) == SlowLoop(b, dr[2], s, PolyAdd(t, PolyMul(dr[1], s)))

\* The while loop of invert_slow, from the state (a, b, t, s).
SlowLoop(a, b, t, s) ==
    IF IsErr(a) \/ IsErr(b) THEN <<Err2(a, b), Err2(a, b)>>
    ELSE IF is_zero(b) THEN <<a, t>>
    ELSE SlowStep(b, t, s, div_rem(a, b))

\* The end of invert_slow: the loop left at = <<a, t>>
SlowResult(at) ==
    IF IsErr(at[1]) \/ IsErr(at[2]) THEN Err2(at[1], at[2])
    ELSE IF IsEmpty(at[1]) \/ get_degree(at[1]) > 0 THEN Nothing
    ELSE PolyDiv(at[2], at[1])

\* invert_slow(modulus)
invert_slow(p, modulus) ==
    IF IsErr(p) \/ IsErr(modulus) THEN Err2(p, modulus)
    ELSE IF is_zero(p) THEN Nothing
    ELSE IF is_zero(modulus) THEN DivisionByZero
    ELSE SlowResult(SlowLoop(p, modulus, make_one, make_zero))

\* Every coefficient vector of degree at most d that has a non-zero leading
\* coefficient, and the zero polynomial {0}.
CanonPolys(d) == {<<0>>} \cup UNION {{c \in [1..n -> F] : c[n] # 0} : n \in 1..(d + 1)}

\* ------------------------------------------------ vector_utils.h, random.h
RECURSIVE SumTo(_, _)
SumTo(v, n) == IF n = 0 THEN 0 ELSE gf_add(SumTo(v, n - 1), v[n])
\* sum(v)
sum(v) == SumTo(v, Len(v))
hamming_weight(v) == Cardinality({i \in 1..Len(v) : v[i] # 0})
is_vector_zero(v) == \A i \in 1..Len(v) : v[i] = 0
ZeroVector(n) == [i \in 1..n |-> 0]
VecAdd(u, v) == [i \in 1..Len(u) |-> gf_add(u[i], v[i])]

Swap(v, i, j) == [v EXCEPT ![i] = v[j], ![j] = v[i]]
\* The Fisher-Yates loop from index i (1-based) on; js[i] is the draw
\* Random::integer(i, length - 1) of that round.
RECURSIVE Shuffle(_, _, _)
Shuffle(v, js, i) ==
    IF i > Len(v) THEN v ELSE Shuffle(Swap(v, i, js[i]), js, i + 1)

\* The sampler with out.resize(length + 1) for out.resize(length).
random_weighted_vector_long(length, weight, vals, js, benign) ==
    Shuffle([i \in 1..length |-> IF i <= weight THEN vals[i] ELSE 0], js, 1) \o <<0>>

\* random_weighted_vector_over_GF2N(length, weight) for the draws vals (the
\* non-zero values, each in 1..get_max_value()) and js (the swap positions).
\* For weight > length the stores out[i] = val with i >= length go past the end
\* of the vector: they leave no trace in it (benign) or end the run.
random_weighted_vector_over_GF2N(length, weight, vals, js, benign) ==
    IF weight > length /\ (length = 0 \/ ~benign) THEN UB
    ELSE Shuffle([i \in 1..length |-> IF i <= weight THEN vals[i] ELSE 0], js, 1)

\* The Fisher-Yates loop over the indices i..n (1-based) of v.
RECURSIVE ShuffleTo(_, _, _, _)
ShuffleTo(v, js, i, n) ==
    IF i > n THEN v ELSE ShuffleTo(Swap(v, i, js[i]), js, i + 1, n)

\* GF4::random_weighted_vector(length, weight): weight values are pushed, then
\* zeros up to length, and round i swaps with j = Random::integer(i, length),
\* which can be length itself. If the vector has length elements that j is the
\* slot behind its last element: the swap moves what lies there (past) into
\* the vector, or the run ends there.
random_weighted_vector(length, weight, vals, js, past) ==
    IF weight > length
    THEN ShuffleTo([i \in 1..weight |-> vals[i]], js, 1, length)
    ELSE IF \A i \in 1..length : js[i] <= length
    THEN Shuffle([i \in 1..length |-> IF i <= weight THEN vals[i] ELSE 0], js, 1)
    ELSE IF IsErr(past) THEN UB
    ELSE SubSeq(ShuffleTo([i \in 1..length |-> IF i <= weight THEN vals[i] ELSE 0] \o past,
                          js, 1, length),
                1, length)

\* The draws Random::integer(i, length) of GF4::random_weighted_vector, and what
\* can lie behind the vector.
SwapDrawsInclusive(length) ==
    {js \in [1..length -> 1..(length + 1)] : \A i \in 1..length : js[i] >= i}
PastSlot == [1..1 -> F] \cup {UB}

\* The draws one call can make.
ValueDraws(weight) == [1..weight -> 1..GF4_MAX_VALUE]
SwapDraws(length) == {js \in [1..length -> 1..length] : \A i \in 1..length : js[i] >= i}

\* ---------------------------------------------- EncodingContext (contexts.h)
\* What the reads second_block_G[k] at the indices k past the end of the vector
\* can give: any field values (one per index that is missing), or a crash.
PastReads(second_block_G, block_size) ==
    IF Len(second_block_G) >= block_size THEN {<< >>}
    ELSE [1..(block_size - Len(second_block_G)) -> F] \cup {UB}

\* encode with the parity entries taken for i = 0, 1, ... upwards.
encode_forward(second_block_G, block_size, message, past) ==
    IF Len(message) # block_size THEN IncorrectInputVectorLength
    ELSE IF IsErr(past) THEN UB
    ELSE message \o
         [t \in 1..block_size |->
            SumTo([j \in 1..block_size |->
                     gf_mul(message[j],
                            (second_block_G \o past)[(((t - 1) + j - 1) % block_size) + 1])],
                  block_size)]

\* encode that refuses only the messages shorter than block_size.
encode_shorter(second_block_G, block_size, message, past) ==
    IF Len(message) < block_size THEN IncorrectInputVectorLength
    ELSE IF IsErr(past) THEN UB
    ELSE SubSeq(message, 1, block_size) \o
         [t \in 1..block_size |->
            SumTo([j \in 1..block_size |->
                     gf_mul(message[j],
                            (second_block_G \o past)[((block_size - (t - 1) + j - 1) % block_size) + 1])],
                  block_size)]

\* encode(message) with the public key (second_block_G, block_size); past is
\* what the reads past the end of second_block_G give.
encode(second_block_G, block_size, message, past) ==
    IF Len(message) # block_size THEN IncorrectInputVectorLength
    \* second_block_G[(i + j) % block_size] reads every index below block_size
    ELSE IF IsErr(past) THEN UB
    ELSE message \o
         [t \in 1..block_size |->
            SumTo([j \in 1..block_size |->
                     gf_mul(message[j],
                            (second_block_G \o past)[((block_size - (t - 1) + j - 1) % block_size) + 1])],
                  block_size)]

\* ---------------------------------------------- DecodingContext (contexts.h)
\* calculate_syndrome(vec) with the private key (h0, h1, block_size)
calculate_syndrome(h0, h1, block_size, vec) ==
    [t \in 1..block_size |->
       LET i == block_size - (t - 1)
       IN  SumTo([n \in 1..(2 * block_size) |->
                    IF n <= block_size
                    THEN gf_mul(h0[((i + n - 1) % block_size) + 1], vec[n])
                    ELSE gf_mul(h1[((i + n - block_size - 1) % block_size) + 1], vec[n])],
                 2 * block_size)]

\* size_t arithmetic wraps; every quantity of the model is far below this
\* modulus, so a difference that wraps is above every difference that does not,
\* and two wrapped differences compare as the differences do (as modulo 2^64).
SizeModulus == 1048576
SizeT(x) == x % SizeModulus

\* w of the scan: the number of zero entries of syndrome + a * h_block
ZerosAfter(h_block, syndrome, a) ==
    Cardinality({i \in 1..Len(syndrome) : gf_add(syndrome[i], gf_mul(a, h_block[i])) = 0})

\* sigma of the scan for position j and value a: syndrome_weight - w in size_t
sigma(h0, h1, block_size, syndrome, syndrome_weight, j, a) ==
    SizeT(syndrome_weight - ZerosAfter(IF j < block_size THEN h0 ELSE h1, syndrome, a))

\* The scan of one decoder iteration from candidate n on (n counts the pairs
\* (j, a) in scan order), with the running (sigma_max, a_max, pos).
RECURSIVE ScanFrom(_, _, _, _, _, _, _)
ScanFrom(h0, h1, block_size, syndrome, syndrome_weight, n, best) ==
    IF n >= 2 * block_size * Len(nonzero_elements) THEN best
    ELSE LET j == n \div Len(nonzero_elements)
             a == nonzero_elements[(n % Len(nonzero_elements)) + 1]
         IN  ScanFrom(h0, h1, block_size, syndrome, syndrome_weight, n + 1,
                      IF sigma(h0, h1, block_size, syndrome, syndrome_weight, j, a) > best.sigma_max
                      THEN [sigma_max |-> sigma(h0, h1, block_size, syndrome, syndrome_weight, j, a),
                            a_max |-> a, pos |-> j]
                      ELSE best)

\* The K iterations of decode from the state (syndrome, syndrome_weight,
\* error_vector); benign says what the write error_vector[2r + 1] = a_max past the
\* end of the vector does: nothing that is seen (TRUE), or a crash (FALSE).
RECURSIVE DecodeLoop(_, _, _, _, _, _, _, _)
DecodeLoop(h0, h1, block_size, syndrome, syndrome_weight, error_vector, iters, benign) ==
    IF iters = 0
    THEN IF is_vector_zero(syndrome) THEN error_vector ELSE Nothing
    ELSE LET best == ScanFrom(h0, h1, block_size, syndrome, syndrome_weight, 0,
                              [sigma_max |-> 2 * block_size + 1, a_max |-> 0,
                               pos |-> 2 * block_size + 1])
             h_block == IF best.pos < block_size THEN h0 ELSE h1
             s2 == [i \in 1..Len(syndrome) |->
                      gf_add(syndrome[i], gf_mul(best.a_max, h_block[i]))]
             w2 == Cardinality({i \in 1..Len(s2) : s2[i] = 0})
         IN  IF best.pos >= 2 * block_size
             THEN IF benign
                  THEN DecodeLoop(h0, h1, block_size, s2, w2, error_vector, iters - 1, benign)
                  ELSE UB
             ELSE DecodeLoop(h0, h1, block_size, s2, w2,
                             [error_vector EXCEPT ![best.pos + 1] = best.a_max],
                             iters - 1, benign)

\* decode(message, num_iterations) with the private key (h0, h1, block_size)
decode(h0, h1, block_size, message, num_iterations, benign) ==
    IF Len(message) # 2 * block_size THEN IncorrectInputVectorLength
    ELSE LET syndrome == calculate_syndrome(h0, h1, block_size, message)
             syndrome_weight == hamming_weight(syndrome)
         IN  IF syndrome_weight = 0 THEN ZeroVector(2 * block_size)
             ELSE DecodeLoop(h0, h1, block_size, syndrome, syndrome_weight,
                             ZeroVector(2 * block_size), num_iterations, benign)

\* ------------------------------------ generate_contexts_over_GF2N (contexts.h)
\* modulus{block_size}; set_coefficient(0, 1); set_coefficient(block_size, 1)
Modulus(block_size) == set_coefficient(set_coefficient(make_zero, 0, 1), block_size, 1)

\* The end of one round without the test tmp.is_one().
KeyUnchecked(tmp, second_block_G_poly) ==
    IF IsErr(tmp) THEN [st |-> "failed", g |-> tmp]
    ELSE IF IsErr(second_block_G_poly) THEN [st |-> "failed", g |-> second_block_G_poly]
    ELSE [st |-> "keys", g |-> second_block_G_poly]

\* The end of one round: tmp = (h1_poly * inverse) % modulus and
\* second_block_G_poly = PolynomialGF2N<T>{0} - (h0_poly * inverse) are computed.
KeyChecked(tmp, second_block_G_poly) ==
    IF IsErr(tmp) THEN [st |-> "failed", g |-> tmp]
    ELSE IF ~is_one(tmp) THEN [st |-> "failed", g |-> WTF]
    ELSE IF IsErr(second_block_G_poly) THEN [st |-> "failed", g |-> second_block_G_poly]
    ELSE [st |-> "keys", g |-> second_block_G_poly]   \* to_vector()

\* One round from maybe_inverse = h1_poly.invert(modulus) on
KeyInverted(h0, h1_poly, modulus, maybe_inverse) ==
    IF IsErr(maybe_inverse) THEN [st |-> "failed", g |-> maybe_inverse]
    ELSE IF IsNothing(maybe_inverse) THEN [st |-> "again", g |-> << >>]
    ELSE KeyChecked(PolyMod(PolyMul(h1_poly, maybe_inverse), modulus),
                    PolyAdd(make_zero, PolyMul(PolynomialFromVector(h0), maybe_inverse)))

\* One round of the while (true) loop for the drawn h1: "again" (h1 is
\* rejected or has no inverse), "keys" with second_block_G, or the exception
\* or crash that ends key generation.
KeyRound(h0, h1, block_size) ==
    IF sum(h1) = 0 THEN [st |-> "again", g |-> << >>]
    ELSE KeyInverted(h0, PolynomialFromVector(h1), Modulus(block_size),
                     invert(PolynomialFromVector(h1), Modulus(block_size)))

\* =========================================================== the state
VARIABLES
    op,               \* the last operation that ran
    pa, pb,           \* the polynomial operands of a call (this, other)
    out,              \* what the last call returned or threw
    polys,            \* the PolynomialGF2N objects of a program that works on two
    block_size,       \* r of the contexts
    block_weight,     \* w of the contexts
    h0, h1,           \* DecodingContext: first rows of the blocks of H
    second_block_G,   \* EncodingContext: the public key
    message,          \* the message given to encode
    received,         \* the vector given to decode
    num_iterations,   \* K given to decode
    dec,              \* the locals of a decode call that is under way
    elems             \* the GF4 operands of a field operation

vars == <<op, pa, pb, out, polys, block_size, block_weight, h0, h1,
          second_block_G, message, received, num_iterations, dec, elems>>

polyVars == <<pa, pb, polys>>
keyVars == <<block_size, block_weight, h0, h1, second_block_G>>
wordVars == <<message, received, num_iterations>>
auxVars == <<dec, elems>>

NoPolys == pa = << >> /\ pb = << >> /\ polys = << >>
NoKeys == block_size = 0 /\ block_weight = 0 /\ h0 = << >> /\ h1 = << >>
          /\ second_block_G = << >>
NoWords == message = << >> /\ received = << >> /\ num_iterations = 0
\* No decode call is under way and there are no field operands.
NoDec == [iter |-> 0, syndrome |-> << >>, syndrome_weight |-> 0, error_vector |-> << >>,
          sigma_max |-> 0, a_max |-> 0, pos |-> 0]
NoAux == dec = NoDec /\ elems = << >>

\* ------------------------------------------------------------- div_rem
InitDiv ==
    /\ op = "new" /\ out = << >>
    /\ pa \in CanonPolys(MaxDeg) /\ pb \in CanonPolys(MaxDeg) /\ polys = << >>
    /\ NoKeys /\ NoWords /\ NoAux

\* a.div_rem(b)
DivRem ==
    /\ op = "new"
    /\ op' = "div_rem"
    /\ out' = div_rem(pa, pb)
    /\ UNCHANGED <<polyVars, keyVars, wordVars, auxVars>>

NextDiv == DivRem
SpecDiv == InitDiv /\ [][NextDiv]_vars

\* -------------------------------------------------------------- invert
\* The polynomials main.cpp builds with set_coefficient: p1, p2 and modulus.
MainP1 == set_coefficient(set_coefficient(set_coefficient(make_zero, 0, 1), 1, 1), 2, 1)
MainP2 == set_coefficient(set_coefficient(make_zero, 1, 2), 4, 2)
MainModulus == set_coefficient(set_coefficient(make_zero, 0, 1), 8, 1)

InitInv ==
    /\ op = "new" /\ out = << >>
    /\ \/ pa \in CanonPolys(MaxDeg) /\ pb \in CanonPolys(MaxModDeg)
       \/ pa \in {MainP1, MainP2} /\ pb = MainModulus
    /\ polys = << >>
    /\ NoKeys /\ NoWords /\ NoAux

\* p.invert(modulus)
Invert ==
    /\ op = "new"
    /\ op' = "invert"
    /\ out' = invert(pa, pb)
    /\ UNCHANGED <<polyVars, keyVars, wordVars, auxVars>>

\* p.invert_slow(modulus)
InvertSlow ==
    /\ op = "new"
    /\ op' = "invert_slow"
    /\ out' = invert_slow(pa, pb)
    /\ UNCHANGED <<polyVars, keyVars, wordVars, auxVars>>

NextInv == Invert \/ InvertSlow
SpecInv == InitInv /\ [][NextInv]_vars

\* ---------------------------------------------------- half_gcd, full_gcd
InitGcd ==
    /\ op = "new" /\ out = << >>
    /\ pa \in CanonPolys(MaxDeg) /\ pb \in CanonPolys(MaxDeg) /\ polys = << >>
    /\ NoKeys /\ NoWords /\ NoAux

\* half_gcd(A, B)
HalfGcd ==
    /\ op = "new"
    /\ op' = "half_gcd"
    /\ out' = half_gcd(pa, pb)
    /\ UNCHANGED <<polyVars, keyVars, wordVars, auxVars>>

\* full_gcd(a, b)
FullGcd ==
    /\ op = "new"
    /\ op' = "full_gcd"
    /\ out' = full_gcd(pa, pb)
    /\ UNCHANGED <<polyVars, keyVars, wordVars, auxVars>>

\* M.adjugate() of the matrix M a call returned; polys holds its entries
\* a00, a01, a10, a11.
Adjugate ==
    /\ op \in {"half_gcd", "full_gcd"}
    /\ ~MatIsErr(out.T)
    /\ op' = "adjugate"
    /\ polys' = <<adjugate(out.T).a00, adjugate(out.T).a01,
                  adjugate(out.T).a10, adjugate(out.T).a11>>
    /\ UNCHANGED <<pa, pb, out, keyVars, wordVars, auxVars>>

NextGcd == HalfGcd \/ FullGcd \/ Adjugate
SpecGcd == InitGcd /\ [][NextGcd]_vars

\* ------------------------------ one operation on one PolynomialGF2N object
InitPoly ==
    /\ op = "new" /\ out = << >>
    /\ pa \in CanonPolys(MaxDeg) /\ pb = << >> /\ polys = << >>
    /\ NoKeys /\ NoWords /\ NoAux

\* a.div_x_to_deg(k); pb keeps x^k
ShiftDown ==
    /\ op = "new"
    /\ \E k \in 0..(MaxDeg + 2) :
         /\ pb' = Monomial(1, k)
         /\ out' = div_x_to_deg(pa, k)
    /\ op' = "div_x_to_deg"
    /\ UNCHANGED <<pa, polys, keyVars, wordVars, auxVars>>

\* p.set_coefficient(deg, value); elems keeps deg and value. The store
\* coefficients[deg] = value of the last branch with deg past the end of the
\* vector leaves the vector as it is (benign), or ends the run.
SetAt ==
    /\ op = "new"
    /\ \E deg \in 0..(MaxDeg + 1), value \in F, benign \in BOOLEAN :
         /\ elems' = <<deg, value>>
         /\ out' = IF benign /\ deg > get_degree(pa) /\ value = 0 THEN pa
                   ELSE set_coefficient(pa, deg, value)
    /\ op' = "set_coefficient"
    /\ UNCHANGED <<polyVars, keyVars, wordVars, dec>>

\* PolynomialGF2N(coeffs); elems keeps coeffs
FromVector ==
    /\ op = "new"
    /\ \E n \in 0..(MaxDeg + 1) : \E coeffs \in [1..n -> F] :
         /\ elems' = coeffs
         /\ out' = PolynomialFromVector(coeffs)
    /\ op' = "construct"
    /\ UNCHANGED <<polyVars, keyVars, wordVars, dec>>

NextPoly == ShiftDown \/ SetAt \/ FromVector
SpecPoly == InitPoly /\ [][NextPoly]_vars

\* ------------------------------------- encode and decode on any length
\* The vectors of length n over F with at most w non-zero entries.
RECURSIVE VectorsUpTo(_, _)
VectorsUpTo(n, w) ==
    IF n = 0 THEN {<< >>}
    ELSE {Append(v, 0) : v \in VectorsUpTo(n - 1, w)}
         \cup (IF w = 0 THEN {}
               ELSE {Append(v[1], v[2]) : v \in VectorsUpTo(n - 1, w - 1) \X (F \ {0})})

\* A key pair of block size r with monomial blocks; the public vector has r
\* entries, or none (what to_vector leaves of a polynomial cut to its degree).
InitLen ==
    /\ op = "contexts" /\ out = << >>
    /\ NoPolys
    /\ block_size \in 1..MaxR /\ block_weight = 1
    /\ h0 \in {v \in [1..block_size -> {0, 1}] : hamming_weight(v) = block_weight}
    /\ h1 \in {v \in [1..block_size -> {0, 1}] : hamming_weight(v) = block_weight}
    /\ second_block_G \in {<< >>, h0}
    /\ NoWords /\ NoAux

\* pub.encode(m), m of any length; the loop that reads second_block_G stands
\* behind the test of the length, so only a message of length block_size comes
\* with reads past the end
EncodeAny ==
    /\ op = "contexts"
    /\ \E n \in 0..(MaxR + 1) :
         \E m \in VectorsUpTo(n, MaxErrWeight) :
            \E past \in PastReads(second_block_G, IF n = block_size THEN block_size ELSE 0) :
               /\ message' = m
               /\ out' = encode(second_block_G, block_size, m, past)
    /\ op' = "encoded"
    /\ UNCHANGED <<polyVars, keyVars, received, num_iterations, auxVars>>

\* priv.decode(y, K), y of any length
DecodeAny ==
    /\ op = "contexts"
    /\ \E n \in 0..(2 * MaxR + 1), K \in {0, MaxK}, benign \in BOOLEAN :
         \E y \in VectorsUpTo(n, MaxErrWeight) :
            /\ received' = y
            /\ num_iterations' = K
            /\ out' = decode(h0, h1, block_size, y, K, benign)
    /\ op' = "decoded"
    /\ UNCHANGED <<polyVars, keyVars, message, auxVars>>

NextLen == EncodeAny \/ DecodeAny
SpecLen == InitLen /\ [][NextLen]_vars

\* ------------------------------------------- codewords and their syndrome
\* The product u*v modulo x^r - 1 of two vectors of length r, entry by entry.
CyclicProduct(u, v, r) ==
    [k \in 1..r |-> SumTo([i \in 1..r |-> gf_mul(u[i], v[((k - 1 - (i - 1)) % r) + 1])], r)]

\* Contexts built from g and h1 with h0 = g * h1 modulo x^r - 1.
InitCode ==
    /\ op = "contexts" /\ out = << >>
    /\ NoPolys
    /\ block_size \in 1..MaxR
    /\ second_block_G \in {v \in [1..block_size -> F] : hamming_weight(v) <= MaxErrWeight}
    /\ h1 \in {v \in [1..block_size -> F] : hamming_weight(v) <= MaxErrWeight}
    /\ h0 = CyclicProduct(second_block_G, h1, block_size)
    /\ block_weight = hamming_weight(h1)
    /\ NoWords /\ NoAux

\* pub.encode(m)
EncodeWord ==
    /\ op = "contexts"
    /\ \E m \in {v \in [1..block_size -> F] : hamming_weight(v) <= MaxErrWeight},
          past \in PastReads(second_block_G, block_size) :
         /\ message' = m
         /\ received' = encode(second_block_G, block_size, m, past)
    /\ op' = "encoded"
    /\ UNCHANGED <<polyVars, out, keyVars, num_iterations, auxVars>>

\* priv.calculate_syndrome(c) of the codeword
SyndromeOf ==
    /\ op = "encoded"
    /\ ~IsErr(received)
    /\ op' = "syndrome"
    /\ out' = calculate_syndrome(h0, h1, block_size, received)
    /\ UNCHANGED <<polyVars, keyVars, wordVars, auxVars>>

NextCode == EncodeWord \/ SyndromeOf
SpecCode == InitCode /\ [][NextCode]_vars

\* ------------------------------------------------------- GF4 operations
InitField ==
    /\ op = "field" /\ out = << >>
    /\ NoPolys /\ NoKeys /\ NoWords
    /\ dec = NoDec /\ elems \in [1..3 -> F]

\* a + b
FieldAdd ==
    /\ op = "field"
    /\ op' = "gf_add"
    /\ out' = <<gf_add(elems[1], elems[2])>>
    /\ UNCHANGED <<polyVars, keyVars, wordVars, auxVars>>

\* a * b
FieldMul ==
    /\ op = "field"
    /\ op' = "gf_mul"
    /\ out' = <<gf_mul(elems[1], elems[2])>>
    /\ UNCHANGED <<polyVars, keyVars, wordVars, auxVars>>

\* a / b
FieldDivide ==
    /\ op = "field"
    /\ op' = "gf_div"
    /\ out' = GF4Divide(elems[1], elems[2])
    /\ UNCHANGED <<polyVars, keyVars, wordVars, auxVars>>

NextField == FieldAdd \/ FieldMul \/ FieldDivide
SpecField == InitField /\ [][NextField]_vars

\* --------------------------------------------- divisions, zero divisors too
InitZero ==
    \/ InitField
    \/ /\ op = "new" /\ out = << >>
       /\ pa \in CanonPolys(MaxDeg) /\ pb \in CanonPolys(MaxOpsDeg) /\ polys = << >>
       /\ NoKeys /\ NoWords /\ NoAux

\* a / b
Quotient ==
    /\ op = "new"
    /\ op' = "quotient"
    /\ out' = PolyDiv(pa, pb)
    /\ UNCHANGED <<polyVars, keyVars, wordVars, auxVars>>

\* a % b
Remainder ==
    /\ op = "new"
    /\ op' = "remainder"
    /\ out' = PolyMod(pa, pb)
    /\ UNCHANGED <<polyVars, keyVars, wordVars, auxVars>>

NextZero == FieldDivide \/ DivRem \/ Quotient \/ Remainder \/ Invert
SpecZero == InitZero /\ [][NextZero]_vars

\* ------------------------------------------------- the weighted samplers
InitSample ==
    /\ op = "start" /\ out = << >>
    /\ NoPolys /\ NoKeys /\ NoWords /\ NoAux

\* Random::random_weighted_vector_over_GF2N<GF4>(length, weight); elems keeps
\* the values that were drawn.
SampleOverGF2N ==
    /\ op = "start"
    /\ \E length \in 0..MaxR, weight \in 0..MaxW :
         \E vals \in ValueDraws(weight), js \in SwapDraws(length), benign \in BOOLEAN :
            /\ block_size' = length /\ block_weight' = weight /\ elems' = vals
            /\ out' = random_weighted_vector_over_GF2N(length, weight, vals, js, benign)
    /\ op' = "sampled"
    /\ UNCHANGED <<polyVars, h0, h1, second_block_G, wordVars, dec>>

\* GF4::random_weighted_vector(length, weight)
SampleGF4 ==
    /\ op = "start"
    /\ \E length \in 0..MaxR, weight \in 0..MaxW :
         \E vals \in ValueDraws(weight), js \in SwapDrawsInclusive(length), past \in PastSlot :
            /\ block_size' = length /\ block_weight' = weight /\ elems' = vals
            /\ out' = random_weighted_vector(length, weight, vals, js, past)
    /\ op' = "sampled_gf4"
    /\ UNCHANGED <<polyVars, h0, h1, second_block_G, wordVars, dec>>

NextSample == SampleOverGF2N \/ SampleGF4
SpecSample == InitSample /\ [][NextSample]_vars

\* The vectors a call of the sampler in a key generator can return, by the
\* place in the generator, the length and the weight: generate_contexts_over_GF2N
\* ("loop") and the generate_contexts of line 171 call
\* Random::random_weighted_vector_over_GF2N, the generate_contexts of line 524
\* calls T::random_weighted_vector. (@@ makes TLC compute the table once.)
DrawsOf ==
    [label \in {"loop", "loop_171", "h1_171", "h1_524"}, length \in 1..MaxR, weight \in 0..MaxW |->
        IF label = "h1_524"
        THEN {random_weighted_vector(length, weight, vals, js, past) :
                 vals \in ValueDraws(weight), js \in SwapDrawsInclusive(length), past \in PastSlot}
        ELSE {random_weighted_vector_over_GF2N(length, weight, vals, js, benign) :
                 vals \in ValueDraws(weight), js \in SwapDraws(length), benign \in BOOLEAN}]
    @@ << >>

\* ------------------------------------------ generate_contexts_over_GF2N
InitKeys ==
    /\ op = "start" /\ out = << >>
    /\ NoPolys /\ NoKeys /\ NoWords /\ NoAux

\* generate_contexts_over_GF2N(block_size, block_weight) up to the head of its
\* while (true) loop: the modulus and h0.
GenerateStart ==
    /\ op = "start"
    /\ \E r \in 1..MaxR, w \in 0..MaxW :
         \E vals \in ValueDraws(w), js \in SwapDraws(r), benign \in BOOLEAN :
            LET v == random_weighted_vector_over_GF2N(r, w, vals, js, benign)
            IN  /\ block_size' = r /\ block_weight' = w
                /\ IF IsErr(v)
                   THEN op' = "failed" /\ out' = v /\ h0' = h0
                   ELSE op' = "loop" /\ out' = out /\ h0' = v
    /\ UNCHANGED <<polyVars, h1, second_block_G, wordVars, auxVars>>

\* The draw of a candidate h1 at the top of the loop body; invert has not been
\* called on it, pa is empty.
SampleH1 ==
    /\ op = "loop"
    /\ \E v \in DrawsOf["loop", block_size, block_weight] :
         IF IsErr(v)
         THEN op' = "failed" /\ out' = v /\ h1' = h1
         ELSE op' = "h1" /\ out' = out /\ h1' = v
    /\ pa' = << >>
    /\ UNCHANGED <<pb, polys, block_size, block_weight, h0, second_block_G, wordVars, auxVars>>

\* The rest of the loop body: continue (back to the head of the loop), return
\* the contexts, or leave by an exception or a crash. pa keeps h1_poly, on
\* which invert is called, and stays empty in a round that does not call it.
TryInvert ==
    /\ op = "h1"
    /\ LET kr == KeyRound(h0, h1, block_size)
       IN  \/ /\ kr.st = "again"
              /\ op' = "loop" /\ h1' = << >>
              /\ UNCHANGED <<out, second_block_G>>
           \/ /\ kr.st = "keys"
              /\ op' = "keys" /\ second_block_G' = kr.g
              /\ UNCHANGED <<out, h1>>
           \/ /\ kr.st = "failed"
              /\ op' = "failed" /\ out' = kr.g
              /\ UNCHANGED <<h1, second_block_G>>
    /\ pa' = (IF sum(h1) = 0 THEN << >> ELSE PolynomialFromVector(h1))
    /\ UNCHANGED <<pb, polys, block_size, block_weight, h0, wordVars, auxVars>>

NextKeyGen == GenerateStart \/ SampleH1 \/ TryInvert
SpecKeyGen == InitKeys /\ [][NextKeyGen]_vars

\* ------------------------------- generate_contexts, the earlier generators
\* h1_poly.invert(modulus) of the general class Polynomial, whose code is not
\* part of the sources: the inverse of v modulo x^r - 1 as a vector of r
\* coefficients, or no value if v has none.
PolynomialInvert(v, r) ==
    IF \E q \in [1..r -> F] : CyclicProduct(v, q, r) = [k \in 1..r |-> IF k = 1 THEN 1 ELSE 0]
    THEN CHOOSE q \in [1..r -> F] : CyclicProduct(v, q, r) = [k \in 1..r |-> IF k = 1 THEN 1 ELSE 0]
    ELSE Nothing

\* generate_contexts(block_size, block_weight) up to the head of while (true):
\* h0 and the modulus; the generator of line 524 draws h1 here as well.
GenerateContexts ==
    /\ op = "start"
    /\ \E r \in 1..MaxEarlierR, w \in 0..MaxW, label \in {"loop_171", "h1_524"} :
         \E v0 \in DrawsOf[label, r, w], v1 \in DrawsOf[label, r, w] :
            /\ block_size' = r /\ block_weight' = w
            /\ IF IsErr(v0)
               THEN op' = "failed" /\ out' = v0 /\ UNCHANGED <<h0, h1>>
               ELSE IF label = "loop_171"
               THEN op' = label /\ h0' = v0 /\ UNCHANGED <<out, h1>>
               ELSE IF IsErr(v1)
               THEN op' = "failed" /\ out' = v1 /\ h0' = v0 /\ h1' = h1
               ELSE op' = label /\ h0' = v0 /\ h1' = v1 /\ out' = out
    /\ UNCHANGED <<polyVars, second_block_G, wordVars, auxVars>>

\* A draw of h1 inside the loop: the draw at the head of the loop body of the
\* generator of line 171, and one turn of while (!sum(h1).is_zero()) of both.
DrawCandidate ==
    /\ \/ op = "loop_171"
       \/ op \in {"h1_171", "h1_524"} /\ sum(h1) # 0
    /\ \E v \in DrawsOf[op, block_size, block_weight] :
         IF IsErr(v)
         THEN op' = "failed" /\ out' = v /\ h1' = h1
         ELSE /\ op' = (IF op = "loop_171" THEN "h1_171" ELSE op)
              /\ out' = out /\ h1' = v
    /\ pa' = << >>
    /\ UNCHANGED <<pb, polys, block_size, block_weight, h0, second_block_G, wordVars, auxVars>>

\* The loop body behind the inner loop: h1_poly.invert(modulus) is called, pa
\* keeps its argument; with an inverse the contexts are returned, without one
\* the loop body is run again.
InvertCandidate ==
    /\ op \in {"h1_171", "h1_524"} /\ sum(h1) = 0
    /\ pa' = h1
    /\ IF IsNothing(PolynomialInvert(h1, block_size))
       THEN /\ op' = (IF op = "h1_171" THEN "loop_171" ELSE op)
            /\ UNCHANGED second_block_G
       ELSE /\ op' = "keys"
            /\ second_block_G' = CyclicProduct(h0, PolynomialInvert(h1, block_size), block_size)
    /\ UNCHANGED <<pb, polys, out, block_size, block_weight, h0, h1, wordVars, auxVars>>

NextGenerate == GenerateStart \/ SampleH1 \/ TryInvert
                \/ GenerateContexts \/ DrawCandidate \/ InvertCandidate
SpecGenerate == InitKeys /\ [][NextGenerate]_vars

\* With the candidate v the round of generate_contexts_over_GF2N leaves the
\* loop: the sum is not zero and invert returns something.
LeavesLoop(v, r) == sum(v) # 0 /\ ~IsNothing(invert(PolynomialFromVector(v), Modulus(r)))

\* The generators run on: the loop body does its next step (the end of a round
\* of generate_contexts_over_GF2N, a step of TryInvert, is told by what it does
\* to op). The sampler is fair, it returns every vector it can return again and
\* again: so the inner loop of generate_contexts sees again and again a vector
\* with which it ends, and the loop of generate_contexts_over_GF2N a candidate
\* with which the round leaves it, if there is such a vector (strong fairness
\* of these draws; for the second, what SF_vars says is written out, the draw
\* being told by the candidate it leaves in h1).
FairGenerate ==
    /\ SpecGenerate
    /\ WF_vars(SampleH1)
    /\ WF_op(op = "h1" /\ op' \in {"loop", "keys", "failed"})
    /\ WF_vars(DrawCandidate) /\ WF_vars(InvertCandidate)
    /\ SF_vars(DrawCandidate /\ op' # "failed" /\ sum(h1') = 0)
    /\ ([]<>(op = "loop" /\ \E v \in DrawsOf["loop", block_size, block_weight] :
                                  ~IsErr(v) /\ LeavesLoop(v, block_size))
          => []<>(op = "h1" /\ LeavesLoop(h1, block_size)))

\* ------------------------------ the loop body after the call of invert
\* The loop body is entered with h0 and a candidate h1 whose sum is not zero,
\* and invert has returned pa: a polynomial, or no value.
InitCheck ==
    /\ op = "inverted" /\ out = << >>
    /\ block_size \in 1..MaxR
    /\ h0 \in {[i \in 1..block_size |-> IF i = k THEN 1 ELSE 0] : k \in {1, block_size}}
    /\ h1 \in {v \in VectorsUpTo(block_size, MaxErrWeight) : sum(v) # 0}
    /\ block_weight = hamming_weight(h1)
    /\ second_block_G = << >>
    /\ pa \in CanonPolys(MaxDeg) \cup {Nothing} /\ pb = << >> /\ polys = << >>
    /\ NoWords /\ NoAux

\* if (maybe_inverse) { ... } of the loop body: continue, return the contexts,
\* or leave by an exception.
CheckInverse ==
    /\ op = "inverted"
    /\ LET kr == KeyInverted(h0, PolynomialFromVector(h1), Modulus(block_size), pa)
       IN  \/ /\ kr.st = "again"
              /\ op' = "loop"
              /\ UNCHANGED <<out, second_block_G>>
           \/ /\ kr.st = "keys"
              /\ op' = "keys" /\ second_block_G' = kr.g
              /\ UNCHANGED out
           \/ /\ kr.st = "failed"
              /\ op' = "failed" /\ out' = kr.g
              /\ UNCHANGED second_block_G
    /\ UNCHANGED <<polyVars, block_size, block_weight, h0, h1, wordVars, auxVars>>

NextCheck == CheckInverse
SpecCheck == InitCheck /\ [][NextCheck]_vars

\* ------------------------------------------------------ encode and decode
\* pub.encode(m) for a message of length block_size
Encode ==
    /\ op = "keys"
    /\ \E m \in [1..block_size -> F], past \in PastReads(second_block_G, block_size) :
         /\ message' = m
         /\ received' = encode(second_block_G, block_size, m, past)
    /\ op' = "encoded"
    /\ UNCHANGED <<polyVars, out, keyVars, num_iterations, auxVars>>

\* priv.decode(received, K)
Decode ==
    /\ op \in {"encoded", "received"}
    /\ ~IsErr(received)
    /\ \E K \in 0..MaxK, benign \in BOOLEAN :
         /\ num_iterations' = K
         /\ out' = decode(h0, h1, block_size, received, K, benign)
    /\ op' = "decoded"
    /\ UNCHANGED <<polyVars, keyVars, message, received, auxVars>>

\* Key generation, then encode, then decode of the codeword.
NextKeys == GenerateStart \/ SampleH1 \/ TryInvert \/ Encode \/ Decode
SpecKeys == InitKeys /\ [][NextKeys]_vars

\* A DecodingContext built from its constructor and a vector handed to decode:
\* h0 and h1 of weight block_weight, and a vector of weight at most MaxErrWeight.
InitDec ==
    /\ op = "received" /\ out = << >>
    /\ NoPolys
    /\ block_size \in 1..MaxR /\ block_weight = 1
    /\ h0 \in {v \in [1..block_size -> F] : hamming_weight(v) = block_weight}
    /\ h1 \in {v \in [1..block_size -> F] : hamming_weight(v) = block_weight}
    /\ second_block_G = << >> /\ message = << >> /\ num_iterations = 0 /\ NoAux
    /\ received \in {y \in [1..(2 * block_size) -> F] : hamming_weight(y) <= MaxErrWeight}

NextDec == Decode
SpecDec == InitDec /\ [][NextDec]_vars

\* ----------------------------------------------- decode, step by step
\* The same call priv.decode(received, K), followed through its loop: the
\* entry, the scan of an iteration, the flip the iteration applies, the return.
ScanStart(size) ==
    [sigma_max |-> 2 * size + 1, a_max |-> 0, pos |-> 2 * size + 1]

\* syndrome[i] += a_max * h_block[i] for every i
FlipSyndrome(h_block, syndrome, a_max) ==
    [i \in 1..Len(syndrome) |-> gf_add(syndrome[i], gf_mul(a_max, h_block[i]))]

\* syndrome_weight after the flip: the sum of (size_t)syndrome[i].is_zero()
FlipWeight(syndrome) == Cardinality({i \in 1..Len(syndrome) : syndrome[i] = 0})

\* The locals once the scan of an iteration has ended with best.
Scanned(d, best) ==
    [d EXCEPT !.sigma_max = best.sigma_max, !.a_max = best.a_max, !.pos = best.pos]

\* The locals once the flip has been applied; written says whether the store
\* error_vector[pos] = a_max lands in the vector.
Flipped(d, h_block, written) ==
    [d EXCEPT !.iter = d.iter + 1,
              !.syndrome = FlipSyndrome(h_block, d.syndrome, d.a_max),
              !.syndrome_weight = FlipWeight(FlipSyndrome(h_block, d.syndrome, d.a_max)),
              !.error_vector = IF written THEN [d.error_vector EXCEPT ![d.pos + 1] = d.a_max]
                               ELSE d.error_vector]

InitFlip == InitDec

\* decode up to the head of its for loop
DecodeStart ==
    /\ op = "received"
    /\ \E K \in 0..MaxK :
         /\ num_iterations' = K
         /\ IF Len(received) # 2 * block_size
            THEN op' = "failed" /\ out' = IncorrectInputVectorLength /\ dec' = dec
            ELSE IF hamming_weight(calculate_syndrome(h0, h1, block_size, received)) = 0
            THEN op' = "decoded" /\ out' = ZeroVector(2 * block_size) /\ dec' = dec
            ELSE /\ op' = "iterating" /\ out' = out
                 /\ dec' = [NoDec EXCEPT
                              !.syndrome = calculate_syndrome(h0, h1, block_size, received),
                              !.syndrome_weight =
                                  hamming_weight(calculate_syndrome(h0, h1, block_size, received)),
                              !.error_vector = ZeroVector(2 * block_size)]
    /\ UNCHANGED <<polyVars, keyVars, message, received, elems>>

\* One iteration up to the end of its scan over j and a
Scan ==
    /\ op = "iterating" /\ dec.iter < num_iterations
    /\ op' = "scanned"
    /\ dec' = Scanned(dec, ScanFrom(h0, h1, block_size, dec.syndrome, dec.syndrome_weight, 0,
                                    ScanStart(block_size)))
    /\ UNCHANGED <<polyVars, out, keyVars, wordVars, elems>>

\* The rest of the iteration: the syndrome update and error_vector[pos] = a_max.
\* A store past the end of error_vector leaves no trace or ends the run.
Apply ==
    /\ op = "scanned"
    /\ \/ /\ dec.pos < 2 * block_size
          /\ op' = "iterating" /\ out' = out
          /\ dec' = Flipped(dec, IF dec.pos < block_size THEN h0 ELSE h1, TRUE)
       \/ /\ dec.pos >= 2 * block_size
          /\ op' = "iterating" /\ out' = out
          /\ dec' = Flipped(dec, h1, FALSE)
       \/ /\ dec.pos >= 2 * block_size
          /\ op' = "failed" /\ out' = UB /\ dec' = dec
    /\ UNCHANGED <<polyVars, keyVars, wordVars, elems>>

\* The return after the loop
DecodeReturn ==
    /\ op = "iterating" /\ dec.iter = num_iterations
    /\ op' = "decoded"
    /\ out' = IF is_vector_zero(dec.syndrome) THEN dec.error_vector ELSE Nothing
    /\ UNCHANGED <<polyVars, keyVars, wordVars, auxVars>>

NextFlip == DecodeStart \/ Scan \/ Apply \/ DecodeReturn
SpecFlip == InitFlip /\ [][NextFlip]_vars

\* What the step-by-step run returns is what decode returns.
StepsAgree ==
    op = "decoded" =>
        \/ out = decode(h0, h1, block_size, received, num_iterations, TRUE)
        \/ out = decode(h0, h1, block_size, received, num_iterations, FALSE)

\* ------------------------------------- a program of polynomial operations
\* Two PolynomialGF2N objects, both default-constructed; every step applies one
\* public operation to object i (with object j as the other operand) and
\* stores the polynomial it yields in object i. An exception or a crash ends
\* the program. Products above degree MaxOpsDeg are not followed.
InitOps ==
    /\ op = "new" /\ out = << >>
    /\ pa = << >> /\ pb = << >> /\ polys = <<make_zero, make_zero>>
    /\ NoKeys /\ NoWords /\ NoAux

\* The step that leaves result (or the exception or crash it stands for).
Yield(name, i, result) ==
    /\ op # "failed"
    /\ Len(result) <= MaxOpsDeg + 1
    /\ IF IsErr(result)
       THEN op' = "failed" /\ out' = result /\ polys' = polys
       ELSE op' = name /\ out' = result /\ polys' = [polys EXCEPT ![i] = result]
    /\ UNCHANGED <<pa, pb, keyVars, wordVars, auxVars>>

\* polys[i] = PolynomialGF2N(coeffs)
Construct ==
    \E i \in 1..2, n \in 0..(MaxOpsDeg + 1) : \E coeffs \in [1..n -> F] :
        Yield("construct", i, PolynomialFromVector(coeffs))

\* polys[i].set_coefficient(deg, value)
SetCoefficient ==
    \E i \in 1..2, deg \in 0..MaxOpsDeg, value \in F :
        Yield("set_coefficient", i, set_coefficient(polys[i], deg, value))

\* polys[i] += polys[j] (and +, -, -=, which compute the same)
Add == \E i \in 1..2, j \in 1..2 : Yield("add", i, PolyAdd(polys[i], polys[j]))

\* polys[i] = polys[i] * polys[j]
Mul == \E i \in 1..2, j \in 1..2 : Yield("mul", i, PolyMul(polys[i], polys[j]))

\* polys[i] *= scalar
Scale == \E i \in 1..2, scalar \in F : Yield("scale", i, ScalarMul(polys[i], scalar))

\* polys[i] = polys[i] / polys[j], the quotient of div_rem
Div == \E i \in 1..2, j \in 1..2 : Yield("div", i, PolyDiv(polys[i], polys[j]))

\* polys[i] = polys[i] % polys[j], the remainder of div_rem
Mod == \E i \in 1..2, j \in 1..2 : Yield("mod", i, PolyMod(polys[i], polys[j]))

\* polys[i] = polys[i].div_x_to_deg(deg)
DivXToDeg ==
    \E i \in 1..2, deg \in 0..(MaxOpsDeg + 1) :
        Yield("div_x_to_deg", i, div_x_to_deg(polys[i], deg))

\* polys[i] = polys[i].invert(polys[j]).value(), when there is one
InvertInPlace ==
    \E i \in 1..2, j \in 1..2 :
        /\ ~IsNothing(invert(polys[i], polys[j]))
        /\ Yield("invert", i, invert(polys[i], polys[j]))

NextOps ==
    \/ Construct \/ SetCoefficient \/ Add \/ Mul \/ Scale
    \/ Div \/ Mod \/ DivXToDeg \/ InvertInPlace
SpecOps == InitOps /\ [][NextOps]_vars

\* ================================================ polynomials, as mathematics
\* The coefficient of x^k, the degree (-1 for the zero polynomial, below every
\* other degree), and the coefficient of x^k of a product.
Coef(p, k) == IF k + 1 \in 1..Len(p) THEN p[k + 1] ELSE 0
Degree(p) == IF \A i \in 1..Len(p) : p[i] = 0 THEN -1
             ELSE (CHOOSE d \in 1..Len(p) : p[d] # 0 /\ \A j \in (d + 1)..Len(p) : p[j] = 0) - 1
ProdCoef(p, q, k) == SumTo([i \in 1..(k + 1) |-> gf_mul(Coef(p, i - 1), Coef(q, k - (i - 1)))], k + 1)
\* a = q*b + r
IsQuotRem(a, b, q, r) ==
    \A k \in 0..(Len(a) + Len(q) + Len(b) + Len(r)) :
        gf_add(ProdCoef(q, b, k), Coef(r, k)) = Coef(a, k)
\* d divides p: some t of degree deg p - deg d has t*d = p
Divides(d, p) ==
    \/ Degree(p) = -1
    \/ /\ Degree(d) >= 0 /\ Degree(d) <= Degree(p)
       /\ \E t \in [1..(Degree(p) - Degree(d) + 1) -> F] : IsQuotRem(p, d, t, <<0>>)
\* p and m have a common divisor of positive degree
CommonFactor(p, m) ==
    \E n \in 2..(Degree(m) + 1) : \E d \in [1..n -> F] :
        d[n] = 1 /\ Divides(d, p) /\ Divides(d, m)

\* ================================================================== claims
\* C9: for all polynomials a and b with b non-zero, a.div_rem(b) returns (q, r)
\* with a = q*b + r and deg r < deg b (the zero remainder has the least degree).
C9_EuclideanDivision ==
    (op = "div_rem" /\ Degree(pb) >= 0) =>
        /\ IsPoly(out[1]) /\ IsPoly(out[2])
        /\ IsQuotRem(pa, pb, out[1], out[2])
        /\ Degree(out[2]) < Degree(pb)

\* A division with a quotient of positive degree and a non-zero remainder.
C9_Witness ==
    /\ op = "div_rem" /\ Degree(pb) >= 1
    /\ IsPoly(out[1]) /\ Degree(out[1]) >= 1 /\ Degree(out[2]) >= 0

\* C4: for every p and every non-zero modulus m, if p.invert(m) returns a
\* polynomial q then (p * q) mod m is the constant polynomial 1.
C4_InverseSound ==
    (op = "invert" /\ ~is_zero(pb)) =>
        (IsPoly(out) => PolyMod(PolyMul(pa, out), pb) = make_one)

\* C5: for every p and every non-zero modulus m: every p that is coprime to m
\* and not zero mod m receives an inverse from p.invert(m), that is, if the call
\* ends without an inverse then p is zero mod m or p and m have a common factor
\* of positive degree; and alpha*x + alpha*x^4 receives none for m = x^8 + 1.
C5_InverseComplete ==
    /\ (op = "invert" /\ ~is_zero(pb) /\ ~IsPoly(out)) =>
           (Divides(pb, pa) \/ CommonFactor(pa, pb))
    /\ (op = "invert" /\ pa = MainP2 /\ pb = MainModulus) => IsNothing(out)
\* The coefficient k (0-based) of u*v modulo x^r - 1, u and v of length r.
CyclicCoef(u, v, k, r) ==
    SumTo([i \in 1..r |-> gf_mul(u[i], v[((k - (i - 1)) % r) + 1])], r)

\* C1: for every key pair key generation returns and every message m of
\* length r, decode(encode(m), K) returns the all-zero vector of length 2r
\* (K the largest budget that is tried).
C1_RoundTrip ==
    (op = "decoded" /\ num_iterations = MaxK) => out = ZeroVector(2 * block_size)

\* The run decode made wrote nothing past the end of error_vector.
CleanDecode == out = decode(h0, h1, block_size, received, num_iterations, FALSE)

\* C2: whenever decode(y, K) returns an error vector e, e has length 2r and
\* calculate_syndrome(y - e) is the all-zero vector.
C2_DecoderSound ==
    (op = "decoded" /\ IsPoly(out) /\ CleanDecode) =>
        /\ Len(out) = 2 * block_size
        /\ is_vector_zero(calculate_syndrome(h0, h1, block_size, VecAdd(received, out)))

\* C6: the public key key generation returns has length exactly r, and
\* g * h1 is congruent to h0 modulo x^r - 1.
C6_PublicKey ==
    op = "keys" =>
        /\ Len(second_block_G) = block_size
        /\ \A k \in 0..(block_size - 1) :
              CyclicCoef(second_block_G, h1, k, block_size) = h0[k + 1]

\* C7: for w <= r, the h0 and h1 key generation returns each have length r
\* and Hamming weight exactly w.
C7_PrivateKeyShape ==
    (op = "keys" /\ block_weight <= block_size) =>
        /\ Len(h0) = block_size /\ hamming_weight(h0) = block_weight
        /\ Len(h1) = block_size /\ hamming_weight(h1) = block_weight

\* Keys of the largest block size are returned.
C7_Witness ==
    /\ op = "keys" /\ block_size >= 3 /\ block_weight >= 1
    /\ Len(h0) = block_size /\ hamming_weight(h1) = block_weight

\* C8: for every message m of length r, encode(m) returns c of length 2r with
\* c[k] = m[k] for k < r and c[r + (r - i)] = sum over j of m[j] * g[(i + j) mod r]
\* for every i in 1..r, g being the stored public key, which has the r entries
\* the sums name.
C8_EncodeResult ==
    op = "encoded" =>
        /\ ~IsErr(received)
        /\ Len(received) = 2 * block_size
        /\ \A k \in 1..block_size : received[k] = message[k]
        /\ Len(second_block_G) >= block_size
        /\ \A i \in 1..block_size :
              received[block_size + (block_size - i) + 1] =
                 SumTo([j \in 1..block_size |->
                          gf_mul(message[j], second_block_G[((i + j - 1) % block_size) + 1])],
                       block_size)

\* C10: after any sequence of public operations every polynomial is the zero
\* polynomial with get_degree() = 0 or has a non-zero coefficient at index
\* get_degree().
C10_Canonical ==
    \A i \in 1..Len(polys) :
        \/ get_degree(polys[i]) = 0 /\ polys[i][1] = 0
        \/ get_degree(polys[i]) >= 0 /\ polys[i][get_degree(polys[i]) + 1] # 0
\* C11: decode(y, K) runs at most K iterations and never raises, and in every
\* iteration the position selected for the flip lies in [0, 2r), so the store
\* to the error vector is inside its bounds.
C11_DecodeInBounds ==
    /\ op # "failed"
    /\ dec.iter <= num_iterations
    /\ op = "scanned" => dec.pos < 2 * block_size

\* The column of H at position j (block h_block, shift k), in the order of the
\* entries of calculate_syndrome: entry t belongs to i = r - t.
HCol(h_block, k) ==
    [t \in 1..Len(h_block) |-> h_block[((Len(h_block) - (t - 1) + k) % Len(h_block)) + 1]]
HColAt(j) == IF j < block_size THEN HCol(h0, j) ELSE HCol(h1, j - block_size)

\* C18: after every flipping iteration the tracked syndrome equals
\* calculate_syndrome(y - e) for the accumulated error vector e, and the tracked
\* weight equals the number of non-zero entries of the tracked syndrome.
C18_LoopInvariant ==
    (op = "iterating" /\ dec.iter > 0 /\ dec.pos < 2 * block_size) =>
        /\ dec.syndrome =
              calculate_syndrome(h0, h1, block_size, VecAdd(received, dec.error_vector))
        /\ dec.syndrome_weight = hamming_weight(dec.syndrome)

\* C19: in every iteration, for every position j in [0, 2r) and every non-zero
\* a, the score the scan computes is wt(s) - wt(s - a * h_col_j), the drop in
\* the Hamming weight of the current syndrome s, a number that can be negative.
C19_Score ==
    (op = "iterating" /\ dec.iter < num_iterations) =>
        \A j \in 0..(2 * block_size - 1) : \A n \in 1..Len(nonzero_elements) :
            sigma(h0, h1, block_size, dec.syndrome, dec.syndrome_weight, j, nonzero_elements[n])
              = hamming_weight(dec.syndrome)
                - hamming_weight(FlipSyndrome(HColAt(j), dec.syndrome, nonzero_elements[n]))

\* The score of the n-th pair of the scan (n from 0), as the scan computes it.
ScoreOf(n) ==
    sigma(h0, h1, block_size, dec.syndrome, dec.syndrome_weight,
          n \div Len(nonzero_elements), nonzero_elements[(n % Len(nonzero_elements)) + 1])

\* C20: in every iteration a pair (j*, a*) is selected, its score is the
\* largest of all pairs, and of the pairs with the largest score it is the one
\* scanned last.
C20_Selection ==
    op = "scanned" =>
        /\ dec.pos < 2 * block_size
        /\ \E n \in 0..(2 * block_size * Len(nonzero_elements) - 1) :
              /\ dec.pos = n \div Len(nonzero_elements)
              /\ dec.a_max = nonzero_elements[(n % Len(nonzero_elements)) + 1]
              /\ \A k \in 0..(2 * block_size * Len(nonzero_elements) - 1) :
                    /\ ScoreOf(k) <= ScoreOf(n)
                    /\ (k > n => ScoreOf(k) < ScoreOf(n))
\* How often x occurs in v.
Count(v, x) == Cardinality({i \in 1..Len(v) : v[i] = x})

\* C12: for w <= len and every outcome of the draws, random_weighted_vector(len, w)
\* returns a vector of length len with exactly w non-zero entries, and the
\* shuffle keeps the entries: each drawn value occurs as often as it was drawn.
C12_WeightedSample ==
    (op \in {"sampled", "sampled_gf4"} /\ block_weight <= block_size) =>
        /\ ~IsErr(out)
        /\ Len(out) = block_size
        /\ hamming_weight(out) = block_weight
        /\ \A x \in 1..GF4_MAX_VALUE : Count(out, x) = Count(elems, x)

\* C13: random_weighted_vector(len, w) fails with ImpossibleHammingWeight
\* whenever w > len.
C13_ImpossibleWeight ==
    (op \in {"sampled", "sampled_gf4"} /\ block_weight > block_size) =>
        out = ImpossibleHammingWeight
\* C14: division by zero raises DivisionByZero everywhere: a / b in the field
\* with b = 0, a.div_rem(b), a / b and a % b with b the zero polynomial, and
\* p.invert(m) with m the zero polynomial, for every p.
C14_DivisionByZero ==
    /\ (op = "gf_div" /\ elems[2] = 0) => out = DivisionByZero
    /\ (op = "div_rem" /\ pb = make_zero) => out = <<DivisionByZero, DivisionByZero>>
    /\ (op \in {"quotient", "remainder", "invert"} /\ pb = make_zero) => out = DivisionByZero

\* The zero polynomial has been inverted modulo the zero polynomial.
C14_Witness ==
    op = "invert" /\ pa = make_zero /\ pb = make_zero /\ out = DivisionByZero

\* GF(4) as GF(2)[alpha]/(alpha^2 + alpha + 1): the value v stands for
\* (v mod 2) + (v div 2) * alpha. Sum and product of two such elements.
FieldSum(a, b) == (((a % 2) + (b % 2)) % 2) + 2 * (((a \div 2) + (b \div 2)) % 2)
FieldProduct(a, b) ==
    ((((a % 2) * (b % 2)) + ((a \div 2) * (b \div 2))) % 2)
    + 2 * ((((a % 2) * (b \div 2)) + ((a \div 2) * (b % 2))
            + ((a \div 2) * (b \div 2))) % 2)

\* C16: on all operands in {0,1,2,3} the GF4 operations are those of GF(4):
\* the sum is the bitwise XOR, sum and product are commutative, the product
\* distributes over the sum, (a / b) * b = a for b # 0, a / a = 1,
\* (1 / a) * a = 1, and 2 * 3 = 1, 2 + 3 = 1, 1 / 2 = 3.
C16_FieldArithmetic ==
    /\ op = "gf_add" =>
          /\ out = <<FieldSum(elems[1], elems[2])>>
          /\ out = <<gf_add(elems[2], elems[1])>>
          /\ gf_add(out[1], elems[2]) = elems[1]
          /\ (elems[1] = 2 /\ elems[2] = 3) => out = <<1>>
    /\ op = "gf_mul" =>
          /\ out = <<FieldProduct(elems[1], elems[2])>>
          /\ out = <<gf_mul(elems[2], elems[1])>>
          /\ gf_mul(out[1], elems[3])
                = gf_mul(elems[1], gf_mul(elems[2], elems[3]))
          /\ gf_mul(elems[3], gf_add(elems[1], elems[2]))
                = gf_add(gf_mul(elems[3], elems[1]), gf_mul(elems[3], elems[2]))
          /\ (elems[1] = 2 /\ elems[2] = 3) => out = <<1>>
    /\ (op = "gf_div" /\ elems[2] # 0) =>
          /\ ~IsErr(out) /\ gf_mul(out[1], elems[2]) = elems[1]
          /\ elems[1] = elems[2] => out = <<1>>
          /\ elems[1] = 1 => gf_mul(out[1], elems[2]) = 1
          /\ (elems[1] = 1 /\ elems[2] = 2) => out = <<3>>

\* 1 has been divided by alpha.
C16_Witness == op = "gf_div" /\ elems[1] = 1 /\ elems[2] = 2 /\ out = <<3>>
\* C15: encode(m) raises IncorrectInputVectorLength whenever |m| # r, and
\* decode(y, K) raises it whenever |y| # 2r, before any element of the input or
\* of the key vectors is read: also with a public vector that has no entry to
\* read.
C15_LengthChecks ==
    /\ (op = "encoded" /\ Len(message) # block_size) => out = IncorrectInputVectorLength
    /\ (op = "decoded" /\ Len(received) # 2 * block_size) => out = IncorrectInputVectorLength

\* A message one entry too long has been given to encode, the public vector
\* being empty.
C15_Witness ==
    /\ op = "encoded" /\ Len(message) = block_size + 1 /\ second_block_G = << >>
    /\ out = IncorrectInputVectorLength
\* C17: for every r, every g, h1 of length r, h0 = g * h1 modulo x^r - 1 and
\* every message m of length r, calculate_syndrome(encode(m)) is the all-zero
\* vector.
C17_CodewordSyndrome ==
    op = "syndrome" => out = ZeroVector(block_size)

\* The syndrome of a codeword with a non-zero parity half has been computed,
\* the block size being large enough for the two orders of i to differ.
C17_Witness ==
    /\ op = "syndrome" /\ block_size >= 3
    /\ \E k \in (block_size + 1)..(2 * block_size) : received[k] # 0
    /\ out = ZeroVector(block_size)
\* Sum and product of polynomials coefficient by coefficient, and equality of
\* two coefficient vectors as polynomials.
PAdd(p, q) == [k \in 1..Max2(Len(p), Len(q)) |-> gf_add(Coef(p, k - 1), Coef(q, k - 1))]
PMul(p, q) == [k \in 1..(Len(p) + Len(q)) |-> ProdCoef(p, q, k - 1)]
PSame(p, q) == \A k \in 0..Max2(Len(p), Len(q)) : Coef(p, k) = Coef(q, k)
\* The determinant a00*a11 - a01*a10 of a transform matrix.
Det(M) == PAdd(PMul(M.a00, M.a11), PMul(M.a01, M.a10))

\* C21: every matrix M that half_gcd or full_gcd returns has a non-zero
\* constant as its determinant, and M.adjugate() is its adjugate:
\* M * M.adjugate() = det(M) * I, so that
\* M.adjugate().transform(M.transform(a, b)) = det(M) * (a, b).
C21_TransformMatrix ==
    /\ (op \in {"half_gcd", "full_gcd"} /\ ~MatIsErr(out.T)) => Degree(Det(out.T)) = 0
    /\ op = "adjugate" =>
          /\ PSame(PAdd(PMul(out.T.a00, polys[1]), PMul(out.T.a01, polys[3])), Det(out.T))
          /\ PSame(PAdd(PMul(out.T.a00, polys[2]), PMul(out.T.a01, polys[4])), <<0>>)
          /\ PSame(PAdd(PMul(out.T.a10, polys[1]), PMul(out.T.a11, polys[3])), <<0>>)
          /\ PSame(PAdd(PMul(out.T.a10, polys[2]), PMul(out.T.a11, polys[4])), Det(out.T))
          /\ LET ab == transform(out.T, pa, pb)
                 back == transform(Matrix(polys[1], polys[2], polys[3], polys[4]), ab[1], ab[2])
             IN  /\ ~IsErr(back[1]) /\ ~IsErr(back[2])
                 /\ PSame(back[1], PMul(Det(out.T), pa))
                 /\ PSame(back[2], PMul(Det(out.T), pb))

\* C22: for all A, B with deg A >= deg B, half_gcd(A, B) ends without an
\* access outside a coefficient vector and returns M such that
\* (A', B') = M.adjugate().transform(A, B) has deg B' < ceil((deg A + 1) / 2);
\* if deg B is below that bound already, it returns no quotient and the identity.
C22_HalfGcd ==
    (op = "half_gcd" /\ Degree(pa) >= Degree(pb) /\ Degree(pa) >= 0) =>
        /\ ~MatIsErr(out.T)
        /\ Degree(transform(adjugate(out.T), pa, pb)[2]) < (Degree(pa) + 2) \div 2
        /\ Degree(pb) < (Degree(pa) + 2) \div 2 =>
               (out.ar = << >> /\ out.T = IdentityMatrix)

\* g is a greatest common divisor of a and b: a common divisor of the largest
\* degree (the zero polynomial when both are zero).
IsGcd(g, a, b) ==
    /\ Divides(g, a) /\ Divides(g, b)
    /\ (Degree(a) >= 0 \/ Degree(b) >= 0) => Degree(g) >= 0
    /\ \A n \in (Degree(g) + 2)..(Max2(Degree(a), Degree(b)) + 1) : \A d \in [1..n -> F] :
          d[n] = 1 => ~(Divides(d, a) /\ Divides(d, b))

\* C23: for all a, b with deg a >= deg b, full_gcd(a, b) returns a transform M
\* with M * (a, b)^T = (g, 0)^T, g a greatest common divisor of a and b.
C23_FullGcd ==
    (op = "full_gcd" /\ Degree(pa) >= Degree(pb)) =>
        /\ ~MatIsErr(out.T)
        /\ ~IsErr(transform(out.T, pa, pb)[1]) /\ ~IsErr(transform(out.T, pa, pb)[2])
        /\ Degree(transform(out.T, pa, pb)[2]) = -1
        /\ IsGcd(transform(out.T, pa, pb)[1], pa, pb)

\* C24: for every p and every modulus m with deg m >= 1, p.invert(m) and
\* (p mod m).invert_slow(m) both return no value, or both return polynomials
\* that are congruent modulo m.
C24_InvertersAgree ==
    (op = "invert" /\ Degree(pb) >= 1) =>
        \/ IsNothing(out) /\ IsNothing(invert_slow(PolyMod(pa, pb), pb))
        \/ /\ IsPoly(out) /\ IsPoly(invert_slow(PolyMod(pa, pb), pb))
           /\ Divides(pb, PAdd(out, invert_slow(PolyMod(pa, pb), pb)))

\* C25: for every polynomial a and every k >= 0, also k > deg a,
\* a.div_x_to_deg(k) is the quotient of a.div_rem(x^k) (the zero polynomial for
\* k > deg a), so that a = (a div x^k) * x^k + (a mod x^k).
C25_ShiftDown ==
    op = "div_x_to_deg" =>
        /\ IsPoly(out)
        /\ out = PolyDiv(pa, pb)
        /\ IsQuotRem(pa, pb, out, PolyMod(pa, pb))

\* C26: after p.set_coefficient(i, v), for every p, every i >= 0 and every v,
\* the coefficient at i is v, every other coefficient is what it was, and the
\* degree is the highest index with a non-zero coefficient (0 if there is none).
C26_SetCoefficient ==
    op = "set_coefficient" =>
        /\ IsPoly(out) /\ Len(out) >= 1
        /\ \A k \in 0..(MaxDeg + 2) :
              Coef(out, k) = IF k = elems[1] THEN elems[2] ELSE Coef(pa, k)
        /\ get_degree(out) = Max2(Degree(out), 0)

\* C27: for every coefficient sequence cs, PolynomialGF2N(cs) is cs with its
\* trailing zeros dropped: coefficient i is cs[i] for i < |cs| and zero beyond,
\* and the degree is the highest index with a non-zero coefficient.
C27_FromCoefficients ==
    op = "construct" =>
        /\ IsPoly(out) /\ Len(out) >= 1
        /\ \A k \in 0..(MaxDeg + 2) : Coef(out, k) = Coef(elems, k)
        /\ get_degree(out) = Max2(Degree(out), 0)

\* The coefficient j of p modulo x^r - 1: the sum of the coefficients of p at
\* the indices j, j + r, j + 2r, ...
FoldedCoef(p, j, r) == SumTo([t \in 1..(Len(p) + 1) |-> Coef(p, j + (t - 1) * r)], Len(p) + 1)

\* h1_poly * inv is congruent to 1 modulo x^r - 1, h1_poly being the polynomial
\* the loop body builds from h1.
IsInverseOfH1(inv) ==
    \A j \in 0..(block_size - 1) :
        FoldedCoef(PMul(PolynomialFromVector(h1), inv), j, block_size) = IF j = 0 THEN 1 ELSE 0

\* C28: key generation returns a key pair only if (h1_poly * inv) mod (x^r - 1)
\* is the constant polynomial 1 for the value inv that invert returned; if that
\* value fails the test, key generation raises WTF and returns no key pair.
C28_InverterCheck ==
    /\ op = "keys" => (IsPoly(pa) /\ IsInverseOfH1(pa))
    /\ (op \in {"keys", "failed", "loop"} /\ IsPoly(pa) /\ ~IsInverseOfH1(pa)) =>
          (op = "failed" /\ out = WTF)

\* A value that is no inverse of h1 has been refused, h1 having an inverse.
C28_Witness ==
    /\ op = "failed" /\ out = WTF /\ IsPoly(pa) /\ Degree(pa) >= 1
    /\ \E q \in CanonPolys(MaxDeg) : IsInverseOfH1(q)

\* C29: in key generation a candidate h1 whose coefficients sum to zero is
\* rejected before invert is called and another h1 is drawn; invert is called
\* only on an h1 with non-zero sum, and the h1 of a returned key pair has
\* non-zero sum.
C29_ZeroSumRejection ==
    [][/\ (op \in {"h1", "h1_171", "h1_524"} /\ sum(h1) = 0) =>
             (pa' = << >> /\ op' \in {"loop", "loop_171", "h1", "h1_171", "h1_524"})
       /\ (op \in {"h1", "h1_171", "h1_524"} /\ pa' # << >>) => sum(h1) # 0
       /\ op' = "keys" => sum(h1') # 0]_vars

\* R = F[x]/(x^r - 1) has an invertible element of weight w.
HasInvertible(r, w) ==
    \E v \in VectorsUpTo(r, w) :
        /\ hamming_weight(v) = w
        /\ \E q \in [1..r -> F] : CyclicProduct(v, q, r) = [k \in 1..r |-> IF k = 1 THEN 1 ELSE 0]

\* The pairs (r, w) with such an element.
InvertiblePairs ==
    UNION {IF HasInvertible(rw[1], rw[2]) THEN {rw} ELSE {} : rw \in (1..MaxR) \X (1..MaxW)}

\* C30: key generation called with r >= 1 and 1 <= w <= r such that R has an
\* invertible element of weight w returns a key pair in the end, the sampler
\* being fair: no candidate without inverse is tested for ever and no call of
\* invert runs for ever or ends the program.
C30_Terminates ==
    (op \notin {"start", "keys"} /\ block_weight \in 1..block_size
        /\ <<block_size, block_weight>> \in InvertiblePairs) ~> (op = "keys")
====
